---- MODULE Spec2Model ----
(***************************************************************************)
(* Model of asi_MS_2000_500_CP.Controller: the device adaptor for the ASI  *)
(* MS-2000-500-CP stage controller, together with the serial device it     *)
(* talks to.                                                               *)
(*                                                                         *)
(* Numbers are fixed point.  Positions (um) and ranges (mm) carry 4        *)
(* decimals (PU units per 1.0), velocities (mm/s) carry 7 decimals (VU     *)
(* units per 1.0), ramp times, settle times (ms), precisions (um) and the  *)
(* pwm intensity carry 1 decimal (TU units per 1.0).  Values on the wire   *)
(* written with '%0.6f' carry 6 decimals (WU units per 1.0).  An argument  *)
(* that may be None is <<>> for None and <<v>> for the number v; an        *)
(* attribute that was never assigned is <<>>.                              *)
(*                                                                         *)
(* The device is the environment: it holds registers, answers a query with *)
(* the register's content, and on a write either applies the value, keeps  *)
(* the old one, or stores a value of its own (clamping).  Every exchange   *)
(* may also fail in _send (empty answer, or bytes left in the input        *)
(* buffer), after the command was written.                                 *)
(***************************************************************************)
EXTENDS Integers, Sequences, FiniteSets, TLC

VARIABLES
    c,      \* the Controller object's attributes
    d,      \* the device's registers
    pc,     \* "ready" between calls, "returned" when a call has just ended,
            \* or where the call in progress waits
    args,   \* arguments of the move_um call in progress
    op,     \* the current / just ended call: its name and arguments
    sent,   \* the commands it wrote to the port
    result, \* "running", "ok" (returned normally) or "raised"; "none" when ready
    hist    \* history of M commands on the command trace

vars == <<c, d, pc, args, op, sent, result, hist>>

----------------------------------------------------------------------------
(* Fixed point arithmetic *)

PU == 10 ^ 4
VU == 10 ^ 7
TU == 10 ^ 1
\* units per 1.0 of a value written with '%0.6f'
WU == 10 ^ 6

\* an optional value: None, or a number
None == <<>>
Num(v) == <<v>>

Abs(n) == IF n < 0 THEN -n ELSE n

\* Python round(): nearest multiple of q, ties to the even multiple;
\* the result is the multiple's index (n/q rounded)
RoundHalfEven(n, q) ==
    LET lo == n \div q
        r  == n % q
    IN  IF 2 * r < q THEN lo
        ELSE IF 2 * r > q THEN lo + 1
        ELSE IF lo % 2 = 0 THEN lo ELSE lo + 1

\* Python int(): truncation toward zero of a value with 1 decimal
TruncToInt(v) == IF v >= 0 THEN v \div TU ELSE -((-v) \div TU)

\* type(v) is int or type(v) is float
IsNumber(v) == v # None

Range(s) == {s[i] : i \in DOMAIN s}

----------------------------------------------------------------------------
(* Transport: Controller._send *)

\* the world a handler runs in: the object, the device, the commands written
\* so far in this call, the history of M commands, whether an exception
\* is propagating, and the counts the last M command of the call carried
World(cc, dd, ss, hh) ==
    [c |-> cc, d |-> dd, sent |-> ss, hist |-> hh, raised |-> FALSE,
     wire |-> <<>>]

\* The history of M commands on the command trace.  since: what followed the
\* last M command ("none": no M yet; "M": nothing; "N": a '/' answered 'N';
\* "W": that and then a position query).  unseparated: some M command was
\* written with no answered-'N' '/' and position query since the M before.
\* overlapped: some M command was written while _moving was set.
NoHist == [since |-> "none", unseparated |-> FALSE, overlapped |-> FALSE]

Trace(h, cmd, moving) ==
    CASE cmd = "M" ->
            [since |-> "M",
             unseparated |-> h.unseparated \/ h.since \in {"M", "N"},
             overlapped |-> h.overlapped \/ moving]
      [] cmd = "N" -> IF h.since = "M" THEN [h EXCEPT !.since = "N"] ELSE h
      [] cmd = "W" -> IF h.since = "N" THEN [h EXCEPT !.since = "W"] ELSE h
      [] OTHER -> h

Raise(w) == [w EXCEPT !.raised = TRUE]

\* run the rest of a handler unless an exception is propagating
Then(w, F(_)) == IF w.raised THEN w ELSE F(w)

\* one exchange: the command is written, one line is read; 'fail' is an
\* empty answer where one is expected or a non-empty input buffer afterwards
\* (in w.sent a run of '/' polls is logged once)
send(w, cmd, fail) ==
    LET again == cmd = "/" /\ w.sent # <<>> /\ w.sent[Len(w.sent)] = "/"
        w1 == [w EXCEPT !.sent = IF again THEN @ ELSE Append(@, cmd),
                        !.hist = Trace(@, cmd, w.c.moving)]
    IN  IF fail THEN Raise(w1) ELSE w1

----------------------------------------------------------------------------
(* The device: what a register holds after a write.  how.kind is "apply"   *)
(* (the value written), "keep" (the write is ignored, or lost on the       *)
(* line) or "shift" (the device stores the value written with axis         *)
(* how.axis moved by how.by: a clamped or re-quantised value).             *)

DevScalar(old, req, how) ==
    CASE how.kind = "apply" -> req
      [] how.kind = "keep"  -> old
      [] how.kind = "shift" -> req + how.by

DevTuple(old, req, how) ==
    CASE how.kind = "apply" -> req
      [] how.kind = "keep"  -> old
      [] how.kind = "shift" ->
            IF how.axis \in DOMAIN req
            THEN [req EXCEPT ![how.axis] = @ + how.by] ELSE req

Apply == [kind |-> "apply", axis |-> 0, by |-> 0]
Keep  == [kind |-> "keep", axis |-> 0, by |-> 0]
Shift(a, n) == [kind |-> "shift", axis |-> a, by |-> n]

----------------------------------------------------------------------------
(* Illumination: TTL registers, pwm intensity, named states *)

TtlInModes  == {"disabled", "toggle_ttl_out"}
TtlOutModes == {"low", "high", "pwm"}

ttl_in_mode2code(mode) == IF mode = "disabled" THEN "0" ELSE "10"
ttl_in_code2mode(code) == IF code = "0" THEN "disabled" ELSE "toggle_ttl_out"
ttl_out_mode2code(mode) ==
    IF mode = "low" THEN "0" ELSE IF mode = "high" THEN "1" ELSE "9"
ttl_out_code2mode(code) ==
    IF code = "0" THEN "low" ELSE IF code = "1" THEN "high" ELSE "pwm"

get_ttl_in_mode(w, qfail) ==
    LET w1 == send(w, "TTL X?", qfail)
    IN  Then(w1, LAMBDA v :
            [v EXCEPT !.c.ttl_in_mode = ttl_in_code2mode(v.d.ttl_x)])

\* how: what the device does with the code written ("apply" or "keep")
set_ttl_in_mode(w, mode, how, wfail, qfail) ==
    IF mode \notin TtlInModes THEN Raise(w)
    ELSE
    LET dv == DevScalar(w.d.ttl_x, ttl_in_mode2code(mode), how)
        w1 == send([w EXCEPT !.d.ttl_x = dv], "TTL X=", wfail)
        w2 == Then(w1, LAMBDA v : [v EXCEPT !.c.ttl_in_mode = "None"])
        w3 == Then(w2, LAMBDA v : get_ttl_in_mode(v, qfail))
    IN  Then(w3, LAMBDA v :
            IF v.c.ttl_in_mode = mode THEN v ELSE Raise(v))

get_ttl_out_mode(w, qfail) ==
    LET w1 == send(w, "TTL Y?", qfail)
    IN  Then(w1, LAMBDA v :
            [v EXCEPT !.c.ttl_out_mode = ttl_out_code2mode(v.d.ttl_y)])

set_ttl_out_mode(w, mode, how, wfail, qfail) ==
    IF mode \notin TtlOutModes THEN Raise(w)
    ELSE
    LET dv == DevScalar(w.d.ttl_y, ttl_out_mode2code(mode), how)
        w1 == send([w EXCEPT !.d.ttl_y = dv], "TTL Y=", wfail)
        w2 == Then(w1, LAMBDA v : [v EXCEPT !.c.ttl_out_mode = "None"])
        w3 == Then(w2, LAMBDA v : get_ttl_out_mode(v, qfail))
    IN  Then(w3, LAMBDA v :
            IF v.c.ttl_out_mode = mode THEN v ELSE Raise(v))

PwmStates == {"off", "on", "pwm", "external"}

\* a variant whose 'on' branch leaves the output low (checked not to pass C8)
state2modes_on_low(state) ==
    CASE state = "off"      -> <<"disabled", "low">>
      [] state = "on"       -> <<"disabled", "low">>
      [] state = "pwm"      -> <<"disabled", "pwm">>
      [] state = "external" -> <<"toggle_ttl_out", "low">>

\* the branches of set_pwm_state: the two modes a named state asks for
state2modes(state) ==
    CASE state = "off"      -> <<"disabled", "low">>
      [] state = "on"       -> <<"disabled", "high">>
      [] state = "pwm"      -> <<"disabled", "pwm">>
      [] state = "external" -> <<"toggle_ttl_out", "low">>

\* a variant that sets the output register first (checked not to pass C17)
set_pwm_state_output_first(w, state, o) ==
    IF state \notin PwmStates THEN Raise(w)
    ELSE
    LET m  == state2modes(state)
        w1 == set_ttl_out_mode(w, m[2], o.hy, o.wy, o.qy)
        w2 == Then(w1, LAMBDA v : set_ttl_in_mode(v, m[1], o.hx, o.wx, o.qx))
    IN  Then(w2, LAMBDA v : [v EXCEPT !.c.state = state])

\* o: what the device and the transport do in the four exchanges
set_pwm_state(w, state, o) ==
    IF state \notin PwmStates THEN Raise(w)
    ELSE
    LET m  == state2modes(state)
        w1 == set_ttl_in_mode(w, m[1], o.hx, o.wx, o.qx)
        w2 == Then(w1, LAMBDA v : set_ttl_out_mode(v, m[2], o.hy, o.wy, o.qy))
    IN  Then(w2, LAMBDA v : [v EXCEPT !.c.state = state])

get_pwm_intensity(w, qfail) ==
    LET w1 == send(w, "LED X?", qfail)
    IN  Then(w1, LAMBDA v : [v EXCEPT !.c.pwm_intensity = Num(v.d.led)])

\* a variant that accepts 0..99 (checked not to pass C10)
set_pwm_intensity_from_0(w, intensity, how, wfail, qfail) ==
    IF ~IsNumber(intensity) THEN Raise(w)
    ELSE
    LET i == TruncToInt(intensity[1])
    IN  IF ~(0 <= i /\ i <= 99) THEN Raise(w)
        ELSE
        LET dv == DevScalar(w.d.led, i, how)
            w1 == send([w EXCEPT !.d.led = dv], "LED X=", wfail)
            w2 == Then(w1, LAMBDA v : get_pwm_intensity(v, qfail))
        IN  Then(w2, LAMBDA v :
                IF v.c.pwm_intensity = Num(i) THEN v ELSE Raise(v))

\* intensity is None or a number with 1 decimal (a Python int or float)
set_pwm_intensity(w, intensity, how, wfail, qfail) ==
    IF ~IsNumber(intensity) THEN Raise(w)
    ELSE
    LET i == TruncToInt(intensity[1])
    IN  IF ~(1 <= i /\ i <= 99) THEN Raise(w)
        ELSE
        LET dv == DevScalar(w.d.led, i, how)
            w1 == send([w EXCEPT !.d.led = dv], "LED X=", wfail)
            w2 == Then(w1, LAMBDA v : get_pwm_intensity(v, qfail))
        IN  Then(w2, LAMBDA v :
                IF v.c.pwm_intensity = Num(i) THEN v ELSE Raise(v))

\* a variant that completes a move in progress before it closes the port
\* (checked not to pass C22)
close_finishing(w, o) ==
    LET w1 == IF w.c.state # "off" THEN set_pwm_state(w, "off", o) ELSE w
        w2 == Then(w1, LAMBDA v :
                IF v.c.moving
                THEN [send(send(v, "/", FALSE), "W", FALSE)
                        EXCEPT !.c.moving = FALSE]
                ELSE v)
    IN  Then(w2, LAMBDA v : [v EXCEPT !.c.port_open = FALSE])

close(w, o) ==
    LET w1 == IF w.c.state # "off" THEN set_pwm_state(w, "off", o) ELSE w
    IN  Then(w1, LAMBDA v : [v EXCEPT !.c.port_open = FALSE])

----------------------------------------------------------------------------
(* Parameter store: velocity, acceleration, settle time, precision.        *)
(* In memory: velocity_mmps in VU units, acceleration_ms, settle_time_ms   *)
(* and precision_um in TU units.  The device registers d.s, d.ac, d.wt     *)
(* (mm/s, ms, ms) and d.pc (mm) hold what is on the wire, in WU units.     *)

NAxes(w) == Len(w.c.axes)

\* '%0.6f' % v and float(text), for each in-memory unit
fmt6_velocity(v)   == RoundHalfEven(v, VU \div WU)
parse_velocity(t)  == t * (VU \div WU)
fmt6_ms(v)         == v * (WU \div TU)
parse_ms(t)        == t \div (WU \div TU)
\* 'PC%s=%0.6f' % 1e-6 * precision_um: um in memory, mm on the wire
fmt6_precision(v)  == RoundHalfEven(v, TU)
\* round(1e6 * p) of the mm the device reports
parse_precision(t) == RoundHalfEven(t * TU, TU) * TU

\* resolve an entry of a setter's argument: None takes the value in memory
Resolve(arg, current) ==
    [i \in DOMAIN arg |-> IF arg[i] = None THEN current[i] ELSE arg[i][1]]

AllNumbers(arg) == \A i \in DOMAIN arg : IsNumber(arg[i])

get_velocity(w, qfail) ==
    LET w1 == send(w, "S?", qfail)
    IN  Then(w1, LAMBDA v : [v EXCEPT !.c.velocity_mmps =
            [i \in DOMAIN v.d.s |-> parse_velocity(v.d.s[i])]])

set_velocity(w, velocity_mmps, how, wfail, qfail) ==
    IF Len(velocity_mmps) # NAxes(w) THEN Raise(w)
    ELSE IF ~AllNumbers(velocity_mmps) THEN Raise(w)
    ELSE
    LET r == Resolve(velocity_mmps, w.c.velocity_mmps)
    IN  IF \E i \in DOMAIN r : ~(0 <= r[i] /\ r[i] <= w.c.max_velocity_mmps[i])
        THEN Raise(w)
        ELSE
        LET rounded == [i \in DOMAIN r |->
                            RoundHalfEven(r[i], VU \div WU) * (VU \div WU)]
            wire == [i \in DOMAIN r |-> fmt6_velocity(rounded[i])]
            w1 == send([w EXCEPT !.d.s = DevTuple(@, wire, how)], "S=", wfail)
            w2 == Then(w1, LAMBDA v : get_velocity(v, qfail))
        IN  Then(w2, LAMBDA v :
                IF v.c.velocity_mmps = rounded THEN v ELSE Raise(v))

get_acceleration(w, qfail) ==
    LET w1 == send(w, "AC?", qfail)
    IN  Then(w1, LAMBDA v : [v EXCEPT !.c.acceleration_ms =
            [i \in DOMAIN v.d.ac |-> parse_ms(v.d.ac[i])]])

set_acceleration(w, acceleration_ms, how, wfail, qfail) ==
    IF Len(acceleration_ms) # NAxes(w) THEN Raise(w)
    ELSE IF ~AllNumbers(acceleration_ms) THEN Raise(w)
    ELSE
    LET r == Resolve(acceleration_ms, w.c.acceleration_ms)
        rounded == [i \in DOMAIN r |-> RoundHalfEven(r[i], TU) * TU]
    IN  IF \E i \in DOMAIN r :
                ~(rounded[i] >= w.c.min_acceleration_ms[i]
                  /\ rounded[i] <= w.c.max_acceleration_ms[i])
        THEN Raise(w)
        ELSE
        LET wire == [i \in DOMAIN r |-> fmt6_ms(rounded[i])]
            w1 == send([w EXCEPT !.d.ac = DevTuple(@, wire, how)], "AC=", wfail)
            w2 == Then(w1, LAMBDA v : get_acceleration(v, qfail))
        IN  Then(w2, LAMBDA v :
                IF v.c.acceleration_ms = rounded THEN v ELSE Raise(v))

get_settle_time(w, qfail) ==
    LET w1 == send(w, "WT?", qfail)
    IN  Then(w1, LAMBDA v : [v EXCEPT !.c.settle_time_ms =
            [i \in DOMAIN v.d.wt |-> parse_ms(v.d.wt[i])]])

\* a variant that verifies within twice the tolerance (checked not to pass
\* C5)
set_settle_time_twice_tol(w, settle_time_ms, how, wfail, qfail) ==
    IF Len(settle_time_ms) # NAxes(w) THEN Raise(w)
    ELSE IF ~AllNumbers(settle_time_ms) THEN Raise(w)
    ELSE
    LET r == Resolve(settle_time_ms, w.c.settle_time_ms)
        rounded == [i \in DOMAIN r |-> RoundHalfEven(r[i], TU) * TU]
    IN  IF \E i \in DOMAIN r :
                ~(0 <= rounded[i] /\ rounded[i] <= w.c.max_settle_time_ms[i])
        THEN Raise(w)
        ELSE
        LET wire == [i \in DOMAIN r |-> fmt6_ms(rounded[i])]
            w1 == send([w EXCEPT !.d.wt = DevTuple(@, wire, how)], "WT=", wfail)
            w2 == Then(w1, LAMBDA v : get_settle_time(v, qfail))
        IN  Then(w2, LAMBDA v :
                IF \A i \in DOMAIN rounded :
                      /\ v.c.settle_time_ms[i]
                            >= rounded[i] - 2 * v.c.tol_settle_time_ms[i]
                      /\ v.c.settle_time_ms[i]
                            <= rounded[i] + 2 * v.c.tol_settle_time_ms[i]
                THEN v ELSE Raise(v))

set_settle_time(w, settle_time_ms, how, wfail, qfail) ==
    IF Len(settle_time_ms) # NAxes(w) THEN Raise(w)
    ELSE IF ~AllNumbers(settle_time_ms) THEN Raise(w)
    ELSE
    LET r == Resolve(settle_time_ms, w.c.settle_time_ms)
        rounded == [i \in DOMAIN r |-> RoundHalfEven(r[i], TU) * TU]
    IN  IF \E i \in DOMAIN r :
                ~(0 <= rounded[i] /\ rounded[i] <= w.c.max_settle_time_ms[i])
        THEN Raise(w)
        ELSE
        LET wire == [i \in DOMAIN r |-> fmt6_ms(rounded[i])]
            w1 == send([w EXCEPT !.d.wt = DevTuple(@, wire, how)], "WT=", wfail)
            w2 == Then(w1, LAMBDA v : get_settle_time(v, qfail))
        IN  Then(w2, LAMBDA v :
                IF \A i \in DOMAIN rounded :
                      /\ v.c.settle_time_ms[i]
                            >= rounded[i] - v.c.tol_settle_time_ms[i]
                      /\ v.c.settle_time_ms[i]
                            <= rounded[i] + v.c.tol_settle_time_ms[i]
                THEN v ELSE Raise(v))

get_precision(w, qfail) ==
    LET w1 == send(w, "PC?", qfail)
    IN  Then(w1, LAMBDA v : [v EXCEPT !.c.precision_um =
            [i \in DOMAIN v.d.pc |-> parse_precision(v.d.pc[i])]])

\* a variant that does not compare the answer of the re-query (checked not
\* to pass C6)
set_precision_unverified(w, precision_um, how, wfail, qfail) ==
    IF Len(precision_um) # NAxes(w) THEN Raise(w)
    ELSE IF ~AllNumbers(precision_um) THEN Raise(w)
    ELSE
    LET r == Resolve(precision_um, w.c.precision_um)
        rounded == [i \in DOMAIN r |-> RoundHalfEven(r[i], TU) * TU]
    IN  IF \E i \in DOMAIN r :
                ~(rounded[i] >= w.c.min_precision_um[i]
                  /\ rounded[i] <= w.c.max_precision_um[i])
        THEN Raise(w)
        ELSE
        LET wire == [i \in DOMAIN r |-> fmt6_precision(rounded[i])]
            w1 == send([w EXCEPT !.d.pc = DevTuple(@, wire, how)], "PC=", wfail)
        IN  Then(w1, LAMBDA v : get_precision(v, qfail))

set_precision(w, precision_um, how, wfail, qfail) ==
    IF Len(precision_um) # NAxes(w) THEN Raise(w)
    ELSE IF ~AllNumbers(precision_um) THEN Raise(w)
    ELSE
    LET r == Resolve(precision_um, w.c.precision_um)
        rounded == [i \in DOMAIN r |-> RoundHalfEven(r[i], TU) * TU]
    IN  IF \E i \in DOMAIN r :
                ~(rounded[i] >= w.c.min_precision_um[i]
                  /\ rounded[i] <= w.c.max_precision_um[i])
        THEN Raise(w)
        ELSE
        LET wire == [i \in DOMAIN r |-> fmt6_precision(rounded[i])]
            w1 == send([w EXCEPT !.d.pc = DevTuple(@, wire, how)], "PC=", wfail)
            w2 == Then(w1, LAMBDA v : get_precision(v, qfail))
        IN  Then(w2, LAMBDA v :
                IF v.c.precision_um = rounded THEN v ELSE Raise(v))

----------------------------------------------------------------------------
(* Motion: positions in PU units in memory, encoder counts on the device   *)

\* float(count) / factor, over zip(counts, encoder_counts_per_um)
counts2position(w, counts) ==
    [i \in 1..(IF Len(counts) < Len(w.c.encoder_counts_per_um)
               THEN Len(counts) ELSE Len(w.c.encoder_counts_per_um)) |->
        (counts[i] * PU) \div w.c.encoder_counts_per_um[i]]

\* a variant that truncates toward zero (checked not to pass C14)
position2counts_truncated(w, position_um) ==
    [i \in 1..(IF Len(position_um) < Len(w.c.encoder_counts_per_um)
               THEN Len(position_um) ELSE Len(w.c.encoder_counts_per_um)) |->
        LET v == position_um[i] * w.c.encoder_counts_per_um[i]
        IN  IF v >= 0 THEN v \div PU ELSE -((-v) \div PU)]

\* round(position * factor)
position2counts(w, position_um) ==
    [i \in 1..(IF Len(position_um) < Len(w.c.encoder_counts_per_um)
               THEN Len(position_um) ELSE Len(w.c.encoder_counts_per_um)) |->
        RoundHalfEven(position_um[i] * w.c.encoder_counts_per_um[i], PU)]

\* a variant that does not store the answer (checked not to pass C12)
get_position_unstored(w, qfail) == send(w, "W", qfail)

get_position(w, qfail) ==
    LET w1 == send(w, "W", qfail)
    IN  Then(w1, LAMBDA v :
            [v EXCEPT !.c.position_um = counts2position(v, v.d.pos)])

\* one turn of the loop of _finish_moving: answer is "N", "B" (any other
\* non-empty status) or "fail" (the exchange raises)
poll(w, answer) ==
    LET w1 == send(w, "/", answer = "fail")
    IN  Then(w1, LAMBDA v :
            IF answer = "N" THEN [v EXCEPT !.hist = Trace(@, "N", FALSE)]
            ELSE v)

\* a variant that goes back to Idle when the tolerance check fails (checked
\* not to pass C21)
finish_tail_gives_up(w, qfail) ==
    LET w1 == get_position(w, qfail)
    IN  Then(w1, LAMBDA v :
            IF \A i \in DOMAIN v.c.position_um :
                  /\ v.c.position_um[i] >= v.c.target_move_um[i]
                        - v.c.precision_um[i] * (PU \div TU)
                  /\ v.c.position_um[i] <= v.c.target_move_um[i]
                        + v.c.precision_um[i] * (PU \div TU)
            THEN [v EXCEPT !.c.moving = FALSE]
            ELSE Raise([v EXCEPT !.c.moving = FALSE]))

\* a variant that checks the lower limit only (checked not to pass C3)
finish_tail_lower_only(w, qfail) ==
    LET w1 == get_position(w, qfail)
    IN  Then(w1, LAMBDA v :
            IF \A i \in DOMAIN v.c.position_um :
                  v.c.position_um[i] >= v.c.target_move_um[i]
                        - v.c.precision_um[i] * (PU \div TU)
            THEN [v EXCEPT !.c.moving = FALSE]
            ELSE Raise(v))

\* _finish_moving after the loop: re-read the position, check the tolerance
finish_tail(w, qfail) ==
    LET w1 == get_position(w, qfail)
    IN  Then(w1, LAMBDA v :
            IF \A i \in DOMAIN v.c.position_um :
                  /\ v.c.position_um[i] >= v.c.target_move_um[i]
                        - v.c.precision_um[i] * (PU \div TU)
                  /\ v.c.position_um[i] <= v.c.target_move_um[i]
                        + v.c.precision_um[i] * (PU \div TU)
            THEN [v EXCEPT !.c.moving = FALSE]
            ELSE Raise(v))

\* a variant that takes every number as absolute (checked not to pass C11)
ResolveMove_absolute(w, move_um, relative) ==
    [i \in DOMAIN move_um |->
        IF move_um[i] = None THEN w.c.position_um[i] ELSE move_um[i][1]]

\* the absolute target move_um resolves for each axis, before the range check
ResolveMove(w, move_um, relative) ==
    [i \in DOMAIN move_um |->
        IF move_um[i] = None THEN w.c.position_um[i]
        ELSE IF relative THEN w.c.position_um[i] + move_um[i][1]
        ELSE move_um[i][1]]

\* a variant that checks the lower limit only (checked not to pass C1)
InRange_lower_only(w, target) ==
    \A i \in DOMAIN target : target[i] >= w.c.min_position_um[i]

InRange(w, target) ==
    \A i \in DOMAIN target :
        /\ target[i] >= w.c.min_position_um[i]
        /\ target[i] <= w.c.max_position_um[i]

\* a variant that truncates toward zero (checked not to pass C4)
RoundNm_truncated(v) ==
    IF v >= 0 THEN (v \div (PU \div 1000)) * (PU \div 1000)
    ELSE -(((-v) \div (PU \div 1000)) * (PU \div 1000))

\* round(v, 3)
RoundNm(v) == RoundHalfEven(v, PU \div 1000) * (PU \div 1000)

\* move_um after its first _finish_moving, up to 'if block'
move_body(w, move_um, relative, how, wfail) ==
    IF Len(move_um) # NAxes(w) THEN Raise(w)
    ELSE
    LET target == ResolveMove(w, move_um, relative)
    IN  IF ~InRange(w, target) THEN Raise(w)
        ELSE
        LET rounded == [i \in DOMAIN target |-> RoundNm(target[i])]
            counts == position2counts(w, rounded)
            w1 == send([w EXCEPT !.d.pos = DevTuple(@, counts, how),
                                 !.wire = counts],
                       "M", wfail)
        IN  Then(w1, LAMBDA v :
                [v EXCEPT !.c.moving = TRUE, !.c.target_move_um = rounded])

----------------------------------------------------------------------------
(* Construction: Controller.__init__ *)

\* max speed (mm/s) of a lead screw, the third column of screw2value
screw2speed(screw) ==
    CASE screw = "UC" -> 28 * VU
      [] screw = "SC" -> 14 * VU
      [] screw = "S"  -> 7 * VU
      [] screw = "F"  -> (175 * VU) \div 100
      [] screw = "XF" -> (7 * VU) \div 10

SupportedAxes == {<<"X", "Y">>, <<"Z">>, <<"X", "Y", "Z">>}

Repeat(n, v) == [i \in 1..n |-> v]

\* the object before __init__ has assigned anything
Blank ==
    [port_open |-> FALSE, ttl_in_mode |-> "None", ttl_out_mode |-> "None",
     state |-> "None", pwm_intensity |-> <<>>, axes |-> <<>>,
     max_velocity_mmps |-> <<>>, min_position_um |-> <<>>,
     max_position_um |-> <<>>, encoder_counts_per_um |-> <<>>,
     min_acceleration_ms |-> <<>>, max_acceleration_ms |-> <<>>,
     max_settle_time_ms |-> <<>>, tol_settle_time_ms |-> <<>>,
     min_precision_um |-> <<>>, max_precision_um |-> <<>>,
     velocity_mmps |-> <<>>, acceleration_ms |-> <<>>,
     settle_time_ms |-> <<>>, precision_um |-> <<>>, position_um |-> <<>>,
     moving |-> FALSE, target_move_um |-> <<>>]

\* lines 36-79: the axis configuration and the default parameters
init_axes(w, kw, o) ==
    IF kw.axes \notin SupportedAxes THEN Raise(w)
    ELSE IF Len(kw.lead_screws) # Len(kw.axes) THEN Raise(w)
    ELSE IF Len(kw.axes_min_mm) # Len(kw.axes)
            \/ Len(kw.axes_max_mm) # Len(kw.axes) THEN Raise(w)
    ELSE IF kw.encoder_counts_per_um # None
            /\ Len(kw.encoder_counts_per_um[1]) # Len(kw.axes) THEN Raise(w)
    ELSE
    LET n  == Len(kw.axes)
        w0 == [w EXCEPT
                !.c.axes = kw.axes,
                !.c.max_velocity_mmps =
                    [i \in 1..n |-> screw2speed(kw.lead_screws[i])],
                !.c.min_position_um = [i \in 1..n |-> 1000 * kw.axes_min_mm[i]],
                !.c.max_position_um = [i \in 1..n |-> 1000 * kw.axes_max_mm[i]],
                !.c.encoder_counts_per_um =
                    IF kw.encoder_counts_per_um = None THEN Repeat(n, 10)
                    ELSE kw.encoder_counts_per_um[1],
                !.c.min_acceleration_ms = Repeat(n, 25 * TU),
                !.c.max_acceleration_ms = Repeat(n, 1000 * TU),
                !.c.max_settle_time_ms = Repeat(n, 1000 * TU),
                !.c.tol_settle_time_ms = Repeat(n, 1 * TU),
                !.c.min_precision_um = Repeat(n, 1 * TU),
                !.c.max_precision_um = Repeat(n, 1000000 * TU)]
        w1 == set_velocity(w0,
                [i \in 1..n |-> Num(67 * (w0.c.max_velocity_mmps[i] \div 100))],
                o.hs, FALSE, FALSE)
        w2 == Then(w1, LAMBDA v : set_acceleration(v,
                [i \in 1..n |-> Num(v.c.min_acceleration_ms[i])],
                o.hac, FALSE, FALSE))
        w3 == Then(w2, LAMBDA v : set_settle_time(v,
                Repeat(n, Num(0)), o.hwt, FALSE, FALSE))
        w4 == Then(w3, LAMBDA v : set_precision(v,
                [i \in 1..n |-> Num(v.c.min_precision_um[i])],
                o.hpc, FALSE, FALSE))
        w5 == Then(w4, LAMBDA v : get_position(v, FALSE))
    IN  Then(w5, LAMBDA v : [v EXCEPT !.c.moving = FALSE])

\* lines 80-82
init_pwm(w, o) ==
    LET w1 == set_pwm_state(w, "off", o.pwm)
    IN  Then(w1, LAMBDA v :
            set_pwm_intensity(v, Num(1 * TU), o.hled, FALSE, FALSE))

\* __init__ on a device in state dev, no exchange failing (a failed exchange
\* aborts the construction: there is no object then).  kw: the keyword
\* arguments; o: what the device does with each write.
construct(dev, kw, o) ==
    LET w0 == World([Blank EXCEPT !.port_open = TRUE], dev, <<>>, NoHist)
        wv == send(w0, "V", FALSE)
        w1 == IF wv.d.version # "Version: USB-9.2k" THEN Raise(wv) ELSE wv
        w2 == Then(w1, LAMBDA v :
                set_ttl_in_mode(v, "disabled", o.hx, FALSE, FALSE))
        w3 == Then(w2, LAMBDA v :
                set_ttl_out_mode(v, "low", o.hy, FALSE, FALSE))
        w4 == Then(w3, LAMBDA v : [v EXCEPT !.c.state = "None"])
        w5 == Then(w4, LAMBDA v : init_axes(v, kw, o))
    IN  Then(w5, LAMBDA v : IF kw.use_pwm THEN init_pwm(v, o) ELSE v)

----------------------------------------------------------------------------
(* The configurations, devices and arguments explored *)

\* the largest error, in encoder counts, the device settles with (at 2
\* counts per um and the default precision of 1 um: 1.5 um)
MaxDrift == 3
\* how many of the four parameters differ from their defaults at once
MaxChanged == 1

\* ranges in mm, in PU units: X in [-0.002, 0.002], Y in [-0.001, 0.001];
\* encoders of 2 counts per um
Kwargs ==
    {[axes |-> <<"X", "Y">>, lead_screws |-> <<"S", "F">>,
      axes_min_mm |-> <<-20, -10>>, axes_max_mm |-> <<20, 10>>,
      encoder_counts_per_um |-> Num(<<2, 2>>),
      use_pwm |-> p] : p \in BOOLEAN}

\* the device at power on, before __init__ talks to it
PowerOn(n) ==
    [version |-> "Version: USB-9.2k", ttl_x |-> "10", ttl_y |-> "1",
     led |-> 99, s |-> Repeat(n, 0), ac |-> Repeat(n, 0),
     wt |-> Repeat(n, 0), pc |-> Repeat(n, 0), pos |-> Repeat(n, 0)]

HowsTtl == {Apply, Keep}
HowsLed == {Apply, Keep, Shift(0, 1)}
\* the device may store the last axis's value one unit up (0.000001 mm/s,
\* 1 ms, 1 um); a settle time 1 ms down or 2 ms up
HowsS(n)  == {Apply, Keep, Shift(n, 1)}
HowsAC(n) == {Apply, Keep, Shift(n, WU)}
HowsWT(n) == {Apply, Keep, Shift(n, -1 * WU), Shift(n, 2 * WU)}
HowsPC(n) == {Apply, Keep, Shift(n, 1)}
\* the stage may stop short of or beyond the position written: the last
\* axis MaxDrift - 1 or MaxDrift counts beyond, the first MaxDrift short
HowsM(n)  == {Apply, Keep, Shift(n, MaxDrift - 1), Shift(n, MaxDrift),
              Shift(1, -MaxDrift)}

\* a write and its re-query: neither exchange fails, the write's does, or
\* the query's does (<<wfail, qfail>>)
Fails == {<<FALSE, FALSE>>, <<TRUE, FALSE>>, <<FALSE, TRUE>>}

\* what the device and the transport do during a parameter setter: the
\* device stores a value in one of the ways hows and no exchange fails, or
\* the device applies the value and an exchange fails
SetOracles(hows) ==
    {[how |-> h, fail |-> <<FALSE, FALSE>>] : h \in hows}
        \cup {[how |-> Apply, fail |-> f] : f \in Fails}

\* what the stage and the transport do with an M command: the stage stops in
\* one of the ways HowsM, or it stops where it was sent and the exchange fails
MoveOracles(n) ==
    {[how |-> h, wfail |-> FALSE] : h \in HowsM(n)}
        \cup {[how |-> Apply, wfail |-> TRUE]}

\* what the device and the transport do during set_pwm_state; when the
\* input register's exchanges fail nothing is drawn for the output register
PwmOracles ==
    {o \in [hx : HowsTtl, wx : BOOLEAN, qx : BOOLEAN,
            hy : HowsTtl, wy : BOOLEAN, qy : BOOLEAN] :
        /\ <<o.wx, o.qx>> \in Fails
        /\ <<o.wy, o.qy>> \in Fails
        /\ (o.wx \/ o.qx) => (o.hy = Apply /\ ~o.wy /\ ~o.qy)}

PwmOraclesNoFail == {o \in PwmOracles : ~(o.wx \/ o.qx \/ o.wy \/ o.qy)}

\* During __init__ the device applies each value as written (a device that
\* keeps or changes one fails the verification and aborts the construction),
\* but for the settle time, which is verified within a tolerance
InitOracles(n) ==
    [hx : {Apply}, hy : {Apply}, hs : {Apply}, hac : {Apply},
     hwt : HowsWT(n), hpc : {Apply},
     pwm : {o \in PwmOraclesNoFail : o.hx = Apply /\ o.hy = Apply},
     hled : {Apply}]

PwmStateArgs  == PwmStates \cup {"bogus"}
\* 0.5, 1.5, 99.5, 100, 150 (a number with 1 decimal, in TU units)
IntensityArgs == {None, Num(5), Num(15), Num(995), Num(1000), Num(1500)}

\* Arguments of the four setters.  For each axis: two values within the
\* bounds ("good") and the special ones: None, values outside the bounds
\* that round outside, and values outside the bounds that round into them.
GoodVelocity(cc, i) == {Num(4), Num(cc.max_velocity_mmps[i] - 4)}
OddVelocity(cc, i)  == {None, Num(-1), Num(cc.max_velocity_mmps[i] + 4)}
\* 25.4, 999.6 / 24.5, 24.6, 1000.4, 1000.6 ms
GoodAcceleration(cc, i) == {Num(254), Num(9996)}
OddAcceleration(cc, i)  == {None, Num(245), Num(246), Num(10004), Num(10006)}
\* 0.4, 999.6 / -0.6, -0.4, 1000.4, 1000.6 ms
GoodSettleTime(cc, i) == {Num(4), Num(9996)}
OddSettleTime(cc, i)  == {None, Num(-6), Num(-4), Num(10004), Num(10006)}
\* 1.4, 2.5 / 0.4, 0.6, 1000000.4, 1000000.6 um
GoodPrecision(cc, i) == {Num(14), Num(25)}
OddPrecision(cc, i)  ==
    {None, Num(4), Num(6), Num(cc.max_precision_um[i] + 4),
     Num(cc.max_precision_um[i] + 6)}

\* the tuples of good values, those with one entry replaced by a special
\* value, and a tuple that is one entry short
ArgTuples(n, Good(_), Odd(_)) ==
    LET goods == {t \in [1..n -> UNION {Good(i) : i \in 1..n}] :
                    \A i \in 1..n : t[i] \in Good(i)}
        base  == CHOOSE t \in goods : TRUE
    IN  goods
        \cup UNION {{[base EXCEPT ![i] = v] : v \in Odd(i)} : i \in 1..n}
        \cup {SubSeq(base, 1, n - 1)}

NoArgs == <<>>

Init ==
    /\ \E kw \in Kwargs : \E o \in InitOracles(Len(kw.axes)) :
        LET w == construct(PowerOn(Len(kw.axes)), kw, o)
        IN  /\ ~w.raised
            /\ c = w.c
            /\ d = w.d
            /\ hist = w.hist
    /\ pc = "returned"
    /\ args = NoArgs
    /\ op = [name |-> "__init__"]
    /\ sent = <<>>
    /\ result = "ok"

----------------------------------------------------------------------------
(* Calls *)

Ready == pc = "ready" /\ c.port_open

Start == World(c, d, <<>>, hist)

\* the call returns or raises: its effects become the state
Return(w, o) ==
    /\ c' = w.c
    /\ d' = w.d
    /\ hist' = w.hist
    /\ sent' = w.sent
    /\ result' = IF w.raised THEN "raised" ELSE "ok"
    /\ op' = o
    /\ pc' = "returned"
    /\ args' = NoArgs

\* the caller goes on after a call has ended
Forget ==
    /\ pc = "returned"
    /\ pc' = "ready"
    /\ op' = [name |-> "none"]
    /\ sent' = <<>>
    /\ result' = "none"
    /\ UNCHANGED <<c, d, hist, args>>

SetPwmState ==
    /\ Ready
    /\ \E state \in PwmStateArgs, o \in PwmOracles :
        Return(set_pwm_state(Start, state, o),
               [name |-> "set_pwm_state", arg |-> state])

SetPwmIntensity ==
    /\ Ready
    /\ \E v \in IntensityArgs, how \in HowsLed, f \in Fails :
        Return(set_pwm_intensity(Start, v, how, f[1], f[2]),
               [name |-> "set_pwm_intensity", arg |-> v])

GetPwmIntensity ==
    /\ Ready
    /\ \E qf \in BOOLEAN :
        Return(get_pwm_intensity(Start, qf), [name |-> "get_pwm_intensity"])

SetTtlInMode ==
    /\ Ready
    /\ \E mode \in TtlInModes, how \in HowsTtl, f \in Fails :
        Return(set_ttl_in_mode(Start, mode, how, f[1], f[2]),
               [name |-> "_set_ttl_in_mode", arg |-> mode])

SetTtlOutMode ==
    /\ Ready
    /\ \E mode \in TtlOutModes, how \in HowsTtl, f \in Fails :
        Return(set_ttl_out_mode(Start, mode, how, f[1], f[2]),
               [name |-> "_set_ttl_out_mode", arg |-> mode])

Close ==
    /\ Ready
    /\ \E o \in PwmOracles :
        Return(close(Start, o), [name |-> "close", was |-> c.state])

\* the named illumination states, the TTL registers and close
NextPwm ==
    \/ SetPwmState
    \/ SetTtlInMode
    \/ SetTtlOutMode
    \/ Close
    \/ Forget

\* the pwm intensity
NextLed ==
    \/ SetPwmIntensity
    \/ GetPwmIntensity
    \/ Forget

\* the initial states in which the device stored the default settle time as
\* it was written
InitExact == Init /\ \A i \in DOMAIN d.wt : d.wt[i] = 0

SpecPwm == InitExact /\ [][NextPwm]_vars

SpecLed == InitExact /\ [][NextLed]_vars

----------------------------------------------------------------------------
(* Illumination claims *)

\* the table of named states, as mode pairs and as register codes
TableModes(name) ==
    CASE name = "off"      -> <<"disabled", "low">>
      [] name = "on"       -> <<"disabled", "high">>
      [] name = "pwm"      -> <<"disabled", "pwm">>
      [] name = "external" -> <<"toggle_ttl_out", "low">>

TableCodes(name) ==
    CASE name = "off"      -> <<"0", "0">>
      [] name = "on"       -> <<"0", "1">>
      [] name = "pwm"      -> <<"0", "9">>
      [] name = "external" -> <<"10", "0">>

\* C8: when set_pwm_state(name) returns normally, from any prior state, the
\* TTL modes in memory and the device's two registers (what a re-query of
\* both reproduces) are the table's row for name, and the recorded
\* illumination state is name.
C8_SetStateReproducesTable ==
    (op.name = "set_pwm_state" /\ result = "ok") =>
        /\ op.arg \in PwmStates
        /\ <<c.ttl_in_mode, c.ttl_out_mode>> = TableModes(op.arg)
        /\ <<d.ttl_x, d.ttl_y>> = TableCodes(op.arg)
        /\ c.state = op.arg

C8_Witness ==
    /\ op.name = "set_pwm_state" /\ result = "ok"
    /\ op.arg = "external"
    /\ <<d.ttl_x, d.ttl_y>> = <<"10", "0">>
    /\ c.state = "external"

\* C9: after close() returns normally the device's TTL registers are
\* (disabled, low): the illumination source is not left energized.
C9_CloseLeavesOff ==
    (op.name = "close" /\ result = "ok") =>
        <<d.ttl_x, d.ttl_y>> = <<"0", "0">>

\* C10 as stated: with v outside 1..99 the call raises and writes nothing;
\* with v in 1..99 it returns normally only with pwm_intensity = v.
C10_Original ==
    op.name = "set_pwm_intensity" =>
        IF op.arg = None \/ op.arg[1] < 1 * TU \/ op.arg[1] > 99 * TU
        THEN result = "raised" /\ sent = <<>>
        ELSE result = "ok" =>
                /\ c.pwm_intensity # <<>>
                /\ c.pwm_intensity[1] * TU = op.arg[1]

\* C10 amended: set_pwm_intensity(v) truncates v to the integer int(v).
\* With int(v) outside 1..99 (or v no number) it raises without writing any
\* command and leaves pwm_intensity unchanged; with int(v) in 1..99 it
\* writes one LED set command, re-queries, and returns normally only if the
\* device reports int(v), after which pwm_intensity = int(v), which is what
\* the device's register holds (what get_pwm_intensity() returns).
C10_IntensityStep ==
    (pc = "ready" /\ op'.name = "set_pwm_intensity") =>
        IF op'.arg = None
            \/ TruncToInt(op'.arg[1]) < 1 \/ TruncToInt(op'.arg[1]) > 99
        THEN /\ result' = "raised"
             /\ sent' = <<>>
             /\ c'.pwm_intensity = c.pwm_intensity
        ELSE /\ sent' \in {<<"LED X=">>, <<"LED X=", "LED X?">>}
             /\ result' = "ok" =>
                    /\ sent' = <<"LED X=", "LED X?">>
                    /\ c'.pwm_intensity = Num(TruncToInt(op'.arg[1]))
                    /\ d'.led = TruncToInt(op'.arg[1])

C10_SetIntensity == [][C10_IntensityStep]_vars

C10_Witness ==
    /\ op.name = "set_pwm_intensity" /\ result = "ok"
    /\ op.arg = Num(995)
    /\ c.pwm_intensity = Num(99)

----------------------------------------------------------------------------
(* Parameter store calls *)

\* the defaults __init__ sets, and how many parameters are away from them
Changed ==
    LET n == Len(c.axes)
    IN  Cardinality(
         {k \in 1..4 :
            CASE k = 1 -> ~(/\ c.velocity_mmps =
                                [i \in 1..n |->
                                    67 * (c.max_velocity_mmps[i] \div 100)]
                            /\ d.s = [i \in 1..n |->
                                        fmt6_velocity(c.velocity_mmps[i])])
              [] k = 2 -> ~(/\ c.acceleration_ms = c.min_acceleration_ms
                            /\ d.ac = [i \in 1..n |->
                                        fmt6_ms(c.acceleration_ms[i])])
              [] k = 3 -> ~(/\ c.settle_time_ms = Repeat(n, 0)
                            /\ d.wt = Repeat(n, 0))
              [] k = 4 -> ~(/\ c.precision_um = c.min_precision_um
                            /\ d.pc = [i \in 1..n |->
                                        fmt6_precision(c.precision_um[i])])})

\* the exploration changes at most MaxChanged parameters at once: a call
\* that leaves more of them changed is not explored
Bounded == Changed' <= MaxChanged

SetVelocity ==
    /\ Ready
    /\ \E a \in ArgTuples(Len(c.axes), LAMBDA i : GoodVelocity(c, i),
                          LAMBDA i : OddVelocity(c, i)),
          o \in SetOracles(HowsS(Len(c.axes))) :
        Return(set_velocity(Start, a, o.how, o.fail[1], o.fail[2]),
               [name |-> "_set_velocity", arg |-> a, fail |-> o.fail])
    /\ Bounded

GetVelocity ==
    /\ Ready
    /\ \E qf \in BOOLEAN :
        Return(get_velocity(Start, qf),
               [name |-> "_get_velocity", fail |-> <<FALSE, qf>>])

SetAcceleration ==
    /\ Ready
    /\ \E a \in ArgTuples(Len(c.axes), LAMBDA i : GoodAcceleration(c, i),
                          LAMBDA i : OddAcceleration(c, i)),
          o \in SetOracles(HowsAC(Len(c.axes))) :
        Return(set_acceleration(Start, a, o.how, o.fail[1], o.fail[2]),
               [name |-> "_set_acceleration", arg |-> a, fail |-> o.fail])
    /\ Bounded

GetAcceleration ==
    /\ Ready
    /\ \E qf \in BOOLEAN :
        Return(get_acceleration(Start, qf),
               [name |-> "_get_acceleration", fail |-> <<FALSE, qf>>])

SetSettleTime ==
    /\ Ready
    /\ \E a \in ArgTuples(Len(c.axes), LAMBDA i : GoodSettleTime(c, i),
                          LAMBDA i : OddSettleTime(c, i)),
          o \in SetOracles(HowsWT(Len(c.axes))) :
        Return(set_settle_time(Start, a, o.how, o.fail[1], o.fail[2]),
               [name |-> "_set_settle_time", arg |-> a, fail |-> o.fail])
    /\ Bounded

GetSettleTime ==
    /\ Ready
    /\ \E qf \in BOOLEAN :
        Return(get_settle_time(Start, qf),
               [name |-> "_get_settle_time", fail |-> <<FALSE, qf>>])

SetPrecision ==
    /\ Ready
    /\ \E a \in ArgTuples(Len(c.axes), LAMBDA i : GoodPrecision(c, i),
                          LAMBDA i : OddPrecision(c, i)),
          o \in SetOracles(HowsPC(Len(c.axes))) :
        Return(set_precision(Start, a, o.how, o.fail[1], o.fail[2]),
               [name |-> "_set_precision", arg |-> a, fail |-> o.fail])
    /\ Bounded

GetPrecision ==
    /\ Ready
    /\ \E qf \in BOOLEAN :
        Return(get_precision(Start, qf),
               [name |-> "_get_precision", fail |-> <<FALSE, qf>>])

NextParam ==
    \/ SetVelocity
    \/ GetVelocity
    \/ SetAcceleration
    \/ GetAcceleration
    \/ SetSettleTime
    \/ GetSettleTime
    \/ SetPrecision
    \/ GetPrecision
    \/ Forget

SpecParam == InitExact /\ [][NextParam]_vars

----------------------------------------------------------------------------
(* Motion calls.  A completion wait blocks on the device: the call in      *)
(* progress waits at pc = "wait_prior" (move_um, line 311), "wait_block"    *)
(* (move_um, line 333) or "wait_finish" (_finish_moving called by the       *)
(* user), and goes on when the device answers a status query.              *)

Waits == {"wait_prior", "wait_block", "wait_finish"}

\* The move_um calls explored: 1 um / -1.2606 um / 3 um on X, 0.7496 um /
\* -0.5 um / 2 um on Y (the ranges are -2..2 um and -1..1 um), and a tuple
\* that is one entry short
MoveCall(m, relative, block) ==
    [move_um |-> m, relative |-> relative, block |-> block]

MoveCalls ==
    {MoveCall(<<Num(10000), None>>, FALSE, TRUE),
     MoveCall(<<Num(10000), None>>, TRUE, FALSE),
     MoveCall(<<Num(-12606), Num(7496)>>, FALSE, FALSE),
     MoveCall(<<None, Num(-5000)>>, TRUE, TRUE),
     MoveCall(<<Num(30000), None>>, FALSE, FALSE),
     MoveCall(<<None, Num(20000)>>, TRUE, TRUE),
     MoveCall(<<Num(10000)>>, FALSE, TRUE)}

\* the call in progress as a world
Resume == World(c, d, sent, hist)

\* the call goes on to its next wait
Suspend(w, o, at, a) ==
    /\ c' = w.c
    /\ d' = w.d
    /\ hist' = w.hist
    /\ sent' = w.sent
    /\ result' = "running"
    /\ op' = o
    /\ pc' = at
    /\ args' = a

\* the target the call resolves, recorded when lines 312-319 run
Resolved(w, move_um, relative) ==
    IF Len(move_um) = NAxes(w) THEN ResolveMove(w, move_um, relative)
    ELSE <<>>

\* move_um from line 312 on: the body, then the blocking wait if asked for
\* and the M command went out
Body(w, a, o, how, wfail) ==
    LET w1 == move_body(w, a.move_um, a.relative, how, wfail)
        o1 == [o EXCEPT !.target = Resolved(w, a.move_um, a.relative),
                        !.counts = w1.wire]
    IN  IF w1.raised \/ ~a.block THEN Return(w1, o1)
        ELSE Suspend(w1, o1, "wait_block", NoArgs)

MoveUm ==
    /\ Ready
    /\ \E a \in MoveCalls :
        LET o == [name |-> "move_um", arg |-> a.move_um,
                  relative |-> a.relative, block |-> a.block,
                  was_moving |-> c.moving, target |-> <<>>,
                  counts |-> <<>>]
        IN  IF c.moving THEN Suspend(Start, o, "wait_prior", a)
            ELSE \E mo \in MoveOracles(Len(c.axes)) :
                    Body(Start, a, o, mo.how, mo.wfail)

FinishMoving ==
    /\ Ready
    /\ LET o == [name |-> "_finish_moving", was_moving |-> c.moving]
       IN  IF c.moving THEN Suspend(Start, o, "wait_finish", NoArgs)
           ELSE Return(Start, o)

GetPosition ==
    /\ Ready
    /\ \E qf \in BOOLEAN :
        Return(get_position(Start, qf), [name |-> "_get_position"])

\* a variant that gives up at a busy answer, as a bounded loop would
\* (checked not to pass C20)
PollBusy_gives_up ==
    /\ pc \in Waits
    /\ Return(Raise(poll(Resume, "B")), op)

\* the device answers the status query with something other than 'N'
PollBusy ==
    /\ pc \in Waits
    /\ LET w == poll(Resume, "B")
       IN  /\ sent' = w.sent
           /\ hist' = w.hist
    /\ UNCHANGED <<c, d, pc, args, op, result>>

\* the exchange of the status query raises
PollFail ==
    /\ pc \in Waits
    /\ Return(poll(Resume, "fail"), op)

\* the device answers 'N': the rest of _finish_moving runs, and then the
\* rest of the call
PollDone ==
    /\ pc \in Waits
    /\ \E qf \in BOOLEAN :
        LET w == Then(poll(Resume, "N"), LAMBDA v : finish_tail(v, qf))
        IN  IF pc = "wait_prior" /\ ~w.raised
            THEN \E mo \in MoveOracles(Len(c.axes)) :
                    Body(w, args, op, mo.how, mo.wfail)
            ELSE Return(w, op)

NextMotion ==
    \/ MoveUm
    \/ FinishMoving
    \/ GetPosition
    \/ PollBusy
    \/ PollFail
    \/ PollDone
    \/ Forget

SpecMotion == InitExact /\ [][NextMotion]_vars

----------------------------------------------------------------------------
(* Motion claims *)

\* the position the device answers a position query with, in um
ReRead(cc, dd) ==
    [i \in DOMAIN dd.pos |-> (dd.pos[i] * PU) \div cc.encoder_counts_per_um[i]]

\* every axis of pos is within the precision of the recorded target
WithinTolerance(cc, pos) ==
    \A i \in DOMAIN pos :
        Abs(pos[i] - cc.target_move_um[i]) * TU <= cc.precision_um[i] * PU

\* some axis of a resolved target lies outside the axis's range
OutOfRange(cc, target) ==
    \E i \in DOMAIN target :
        target[i] < cc.min_position_um[i] \/ target[i] > cc.max_position_um[i]

\* round(v, 3) of a position
NearestNm(v) == RoundHalfEven(v * 1000, PU) * (PU \div 1000)

\* C1 as stated: a move_um call whose resolved target is out of range on
\* some axis fails and writes no command at all, in the Idle state and in
\* the Moving state.
C1_Original ==
    (op.name = "move_um" /\ OutOfRange(c, op.target)) =>
        /\ result = "raised"
        /\ sent = <<>>

\* C1: a move_um call whose resolved target is out of range on some axis
\* fails and writes no M command; called in the Idle state it writes no
\* command at all (called in the Moving state it has first written the
\* status and position queries of the completion wait).
C1_OutOfRangeRejected ==
    (op.name = "move_um" /\ OutOfRange(c, op.target)) =>
        /\ result = "raised"
        /\ "M" \notin Range(sent)
        /\ ~op.was_moving => sent = <<>>

\* an out of range move_um called in the Moving state
C1_Witness ==
    /\ op.name = "move_um" /\ op.was_moving
    /\ OutOfRange(c, op.target)
    /\ result = "raised"
    /\ sent = <<"/", "W">>

\* C2: no M command is written while the moving flag is set, and between
\* any two consecutive M commands of the trace there is a status query
\* answered 'N' followed by a position query.
C2_NoOverlap == ~hist.overlapped /\ ~hist.unseparated

\* C3: a completion wait started in the Moving state that returns normally
\* leaves the controller Idle with the position re-read within the precision
\* of the recorded target on every axis; when the position re-read is outside
\* on some axis the call raises (and the controller stays Moving).
C3_Step ==
    LET P == ReRead(c, d)
    IN  /\ (pc \in {"wait_block", "wait_finish"} /\ result' = "ok") =>
                /\ ~c'.moving
                /\ c'.position_um = P
                /\ WithinTolerance(c, P)
        /\ (pc \in Waits /\ ~c'.moving) =>
                /\ c'.position_um = P
                /\ WithinTolerance(c, P)
        /\ (pc = "wait_prior"
                /\ (result' = "ok" \/ pc' = "wait_block"
                        \/ "M" \in Range(sent'))) =>
                WithinTolerance(c, P)
        /\ (pc \in Waits /\ pc' # pc /\ ~WithinTolerance(c, P)) =>
                /\ result' = "raised"
                /\ c'.moving
                /\ c'.target_move_um = c.target_move_um

C3_FinishWithinTolerance == [][C3_Step]_vars

\* a wait that ended with an axis exactly the precision away from its target
C3_Witness ==
    /\ op.name = "_finish_moving" /\ op.was_moving
    /\ result = "ok" /\ ~c.moving
    /\ \E i \in DOMAIN c.position_um :
            Abs(c.position_um[i] - c.target_move_um[i]) * TU
                = c.precision_um[i] * PU

\* no status query follows an M command among the commands s
NoPollAfterM(s) ==
    \A i, j \in DOMAIN s : (s[i] = "M" /\ s[j] = "/") => j < i

\* C4: a move_um call that returns normally leaves the controller Idle when
\* block is true (the completion wait ran after the M command, within the
\* call); when block is false it leaves the controller Moving, the recorded
\* target is the resolved target rounded to 3 decimals, and no status query
\* follows the M command within the call.
C4_BlockSemantics ==
    (op.name = "move_um" /\ result = "ok") =>
        IF op.block
        THEN /\ ~c.moving
             /\ ~NoPollAfterM(sent)
        ELSE /\ c.moving
             /\ c.target_move_um =
                    [i \in DOMAIN op.target |-> NearestNm(op.target[i])]
             /\ NoPollAfterM(sent)

\* a non-blocking move called in the Moving state, with a target that the
\* rounding changes
C4_Witness ==
    /\ op.name = "move_um" /\ ~op.block /\ op.was_moving
    /\ result = "ok" /\ c.moving
    /\ c.target_move_um # op.target
    /\ sent = <<"/", "W", "M">>

----------------------------------------------------------------------------
(* Parameter store claims *)

Setters == {"_set_velocity", "_set_acceleration", "_set_settle_time",
            "_set_precision"}
Getters == {"_get_velocity", "_get_acceleration", "_get_settle_time",
            "_get_precision"}

\* the parameter a call is about: its tuple in memory, and the tuple the
\* device's register answers a get query with, in the units in memory
InMemory(cc, name) ==
    CASE name \in {"_set_velocity", "_get_velocity"} -> cc.velocity_mmps
      [] name \in {"_set_acceleration", "_get_acceleration"} ->
            cc.acceleration_ms
      [] name \in {"_set_settle_time", "_get_settle_time"} ->
            cc.settle_time_ms
      [] name \in {"_set_precision", "_get_precision"} -> cc.precision_um

Reported(dd, name) ==
    CASE name \in {"_set_velocity", "_get_velocity"} ->
            [i \in DOMAIN dd.s |-> dd.s[i] * 10]
      [] name \in {"_set_acceleration", "_get_acceleration"} ->
            [i \in DOMAIN dd.ac |-> dd.ac[i] \div 100000]
      [] name \in {"_set_settle_time", "_get_settle_time"} ->
            [i \in DOMAIN dd.wt |-> dd.wt[i] \div 100000]
      [] name \in {"_set_precision", "_get_precision"} ->
            [i \in DOMAIN dd.pc |-> dd.pc[i] * 10]

\* the rounding rule of each parameter: 6 decimals for the velocity, an
\* integer for the others
\* (velocities are held in 1/VU mm/s and the others in 1/TU of their unit,
\* so both roundings drop the last decimal digit held)
Rule(name, x) == RoundHalfEven(x, 10) * 10

Intended(name, arg) == [i \in DOMAIN arg |-> Rule(name, arg[i][1])]

\* the allowed distance between the tuple intended and the one reported
Tolerance(name) == IF name = "_set_settle_time" THEN 1 * TU ELSE 0

Agree(name, want, got) ==
    /\ DOMAIN want = DOMAIN got
    /\ \A i \in DOMAIN want : Abs(got[i] - want[i]) <= Tolerance(name)

\* some axis's value lies outside that axis's bounds
OutOfBounds(cc, name, arg) ==
    \E i \in DOMAIN arg :
        LET x == arg[i][1]
        IN  CASE name = "_set_velocity" ->
                    x < 0 \/ x > cc.max_velocity_mmps[i]
              [] name = "_set_acceleration" ->
                    x < cc.min_acceleration_ms[i]
                        \/ x > cc.max_acceleration_ms[i]
              [] name = "_set_settle_time" ->
                    x < 0 \/ x > cc.max_settle_time_ms[i]
              [] name = "_set_precision" ->
                    x < cc.min_precision_um[i] \/ x > cc.max_precision_um[i]

\* C5: when set(X) returns normally, for each of the four parameters, the
\* tuple in memory is X after the parameter's rounding rule (exactly, or
\* within 1 ms per axis for the settle time) and it is what the device
\* answers a get query with; and a get() that returns normally leaves the
\* device as it is and returns, and keeps in memory, that answer.  So a
\* get() right after set(X) returns X after rounding.
C5_Step ==
    /\ (pc = "ready" /\ op'.name \in Setters /\ result' = "ok") =>
            /\ Agree(op'.name, Intended(op'.name, op'.arg),
                     InMemory(c', op'.name))
            /\ InMemory(c', op'.name) = Reported(d', op'.name)
    /\ (pc = "ready" /\ op'.name \in Getters /\ result' = "ok") =>
            /\ d' = d
            /\ InMemory(c', op'.name) = Reported(d, op'.name)

C5_SetThenGet == [][C5_Step]_vars

\* a settle time the device stored 1 ms below the one written, accepted
C5_Witness ==
    /\ op.name = "_set_settle_time" /\ result = "ok"
    /\ c.settle_time_ms = <<0, -1 * TU>>
    /\ Reported(d, op.name) = c.settle_time_ms

\* C6: when the re-query of a setter is answered with a tuple that differs
\* from the intended one (by more than 1 ms for the settle time) the call
\* raises, and in every case the tuple in memory afterwards is the one the
\* device reported in that re-query.
C6_MismatchRaises ==
    (op.name \in Setters /\ Len(sent) = 2 /\ op.fail = <<FALSE, FALSE>>) =>
        /\ ~Agree(op.name, Intended(op.name, op.arg), Reported(d, op.name))
                => result = "raised"
        /\ InMemory(c, op.name) = Reported(d, op.name)

\* the device stored another precision than the one written
C6_Witness ==
    /\ op.name = "_set_precision" /\ result = "raised"
    /\ Len(sent) = 2 /\ op.fail = <<FALSE, FALSE>>
    /\ c.precision_um # Intended(op.name, op.arg)
    /\ c.precision_um = Reported(d, op.name)
    /\ c.precision_um # c.min_precision_um

\* C7: a setter called with some axis's value outside that axis's bounds
\* raises before any command is written and leaves the object as it is.
C7_Step ==
    (/\ pc = "ready" /\ op'.name \in Setters
     /\ Len(op'.arg) = Len(c.axes) /\ AllNumbers(op'.arg)
     /\ OutOfBounds(c, op'.name, op'.arg)) =>
        /\ result' = "raised"
        /\ sent' = <<>>
        /\ c' = c

C7_RangeErrorBeforeSend == [][C7_Step]_vars

----------------------------------------------------------------------------
(* Composed moves: from the position read at construction, two blocking    *)
(* relative moves, or one blocking absolute move to the same place.  A     *)
(* blocking move is taken in one step here: the device answers the first   *)
(* status query with 'N'.                                                  *)

\* ranges of -8..8 um on both axes, encoders of 2 counts per um
KwargsWide ==
    [axes |-> <<"X", "Y">>, lead_screws |-> <<"S", "F">>,
     axes_min_mm |-> <<-80, -80>>, axes_max_mm |-> <<80, 80>>,
     encoder_counts_per_um |-> Num(<<2, 2>>), use_pwm |-> FALSE]

\* where the stage stands at power on, in counts: (0, 0) or (1.5, -1) um
StartCounts == {<<0, 0>>, <<3, -2>>}

\* the deltas explored: (3, None), (-2.5004, 1), (1, 2.0006) um
Deltas ==
    {<<Num(30000), None>>, <<Num(-25004), Num(10000)>>,
     <<Num(10000), Num(20006)>>}

\* a delta as numbers: an unspecified entry moves nothing
DeltaUm(m) == [i \in DOMAIN m |-> IF m[i] = None THEN 0 ELSE m[i][1]]

\* move_um(m, relative, block=True) with no exchange failing
move_blocking(w, m, relative, how) ==
    LET w1 == move_body(w, m, relative, how, FALSE)
        w2 == Then(w1, LAMBDA v : poll(v, "N"))
    IN  Then(w2, LAMBDA v : finish_tail(v, FALSE))

InitComposed ==
    /\ \E start \in StartCounts : \E o \in InitOracles(2) :
        LET w == construct([PowerOn(2) EXCEPT !.pos = start], KwargsWide, o)
        IN  /\ o.hwt = Apply
            /\ ~w.raised
            /\ c = w.c
            /\ d = w.d
            /\ hist = w.hist
    /\ pc = "returned"
    /\ args = NoArgs
    /\ op = [name |-> "__init__"]
    /\ sent = <<>>
    /\ result = "ok"

\* the first relative move after construction, or the second one
RelativeMove ==
    /\ pc = "returned" /\ result = "ok"
    /\ \/ op.name = "__init__"
       \/ op.name = "move_um" /\ op.relative /\ op.moves < 2
    /\ \E m \in Deltas, how \in HowsM(Len(c.axes)) :
        LET first == op.name = "__init__"
            from  == IF first THEN c.position_um ELSE op.from
            sum   == IF first THEN DeltaUm(m)
                     ELSE [i \in DOMAIN op.sum |-> op.sum[i] + DeltaUm(m)[i]]
        IN  Return(move_blocking(Start, m, TRUE, how),
                   [name |-> "move_um", relative |-> TRUE,
                    moves |-> IF first THEN 1 ELSE 2,
                    from |-> from, sum |-> sum])

\* one absolute move to the position at construction plus two deltas
AbsoluteMove ==
    /\ pc = "returned" /\ result = "ok"
    /\ op.name = "__init__"
    /\ \E m1 \in Deltas, m2 \in Deltas, how \in HowsM(Len(c.axes)) :
        LET sum == [i \in DOMAIN m1 |-> DeltaUm(m1)[i] + DeltaUm(m2)[i]]
            m   == [i \in DOMAIN sum |-> Num(c.position_um[i] + sum[i])]
        IN  Return(move_blocking(Start, m, FALSE, how),
                   [name |-> "move_um", relative |-> FALSE, moves |-> 1,
                    from |-> c.position_um, sum |-> sum])

NextComposed ==
    \/ RelativeMove
    \/ AbsoluteMove

SpecComposed == InitComposed /\ [][NextComposed]_vars

\* how far, in um, axis i of the device stands from the position at
\* construction plus the deltas moved
Deviation(i) == Abs(ReRead(c, d)[i] - (op.from[i] + op.sum[i]))

\* two relative moves have returned normally
TwoRelativeMoves ==
    op.name = "move_um" /\ op.relative /\ op.moves = 2 /\ result = "ok"

\* C11 as stated: after two relative moves D1, D2 from p that return
\* normally every axis is within precision_um of p + D1 + D2.
C11_Original ==
    TwoRelativeMoves =>
        \A i \in DOMAIN c.axes : Deviation(i) * TU <= c.precision_um[i] * PU

\* C11: after two relative moves D1, D2 from p that return normally every
\* axis is within twice precision_um, plus 0.001 um of rounding, of
\* p + D1 + D2 (each move starts from the position re-read after the move
\* before, so the two deviations add up); after one absolute move to
\* p + D1 + D2 every axis is within precision_um plus 0.0005 um of it.
C11_ComposedMoves ==
    /\ TwoRelativeMoves =>
        \A i \in DOMAIN c.axes :
            Deviation(i) * TU
                <= 2 * c.precision_um[i] * PU + TU * (PU \div 1000)
    /\ (op.name = "move_um" /\ ~op.relative /\ result = "ok") =>
        \A i \in DOMAIN c.axes :
            2 * Deviation(i) * TU
                <= 2 * c.precision_um[i] * PU + TU * (PU \div 1000)

\* two relative moves that both settled within the precision and ended
\* more than the precision away from p + D1 + D2
C11_Witness ==
    /\ TwoRelativeMoves
    /\ ~c.moving
    /\ \E i \in DOMAIN c.axes : Deviation(i) * TU > c.precision_um[i] * PU

----------------------------------------------------------------------------
(* Construction as a call: the object does not exist (pc = "new") until    *)
(* __init__ has run on a device that has the axes asked for.               *)

\* arguments of __init__: the three supported axis sequences with matching
\* arguments, and arguments that do not match
KwargsAll ==
    LET kw(a, s, lo, hi, e, p) ==
            [axes |-> a, lead_screws |-> s, axes_min_mm |-> lo,
             axes_max_mm |-> hi, encoder_counts_per_um |-> e, use_pwm |-> p]
    IN  UNION {
          {kw(<<"Z">>, <<"UC">>, <<-20>>, <<20>>, None, p),
           kw(<<"Z">>, <<"XF">>, <<-20>>, <<20>>, Num(<<2>>), p),
           kw(<<"X", "Y">>, <<"S", "F">>, <<-20, -10>>, <<20, 10>>, None, p),
           kw(<<"X", "Y">>, <<"SC", "XF">>, <<-20, -10>>, <<20, 10>>,
              Num(<<2, 2>>), p),
           kw(<<"X", "Y", "Z">>, <<"S", "F", "UC">>, <<-20, -10, -10>>,
              <<20, 10, 10>>, None, p),
           kw(<<"Y", "X">>, <<"S", "F">>, <<-20, -10>>, <<20, 10>>, None, p),
           kw(<<"X", "Y">>, <<"S">>, <<-20, -10>>, <<20, 10>>, None, p),
           kw(<<"X", "Y">>, <<"S", "F">>, <<-20>>, <<20, 10>>, None, p),
           kw(<<"Z">>, <<"UC">>, <<-20>>, <<20>>, Num(<<2, 2>>), p)}
          : p \in BOOLEAN}

\* what the device does with the writes of __init__: it applies them all,
\* or deals in another way with one of them
ConstructOracles(n) ==
    LET all == [hx |-> Apply, hy |-> Apply, hs |-> Apply, hac |-> Apply,
                hwt |-> Apply, hpc |-> Apply, hled |-> Apply,
                pwm |-> CHOOSE o \in PwmOraclesNoFail :
                            o.hx = Apply /\ o.hy = Apply]
    IN  {all}
        \cup {[all EXCEPT !.hx = h] : h \in HowsTtl}
        \cup {[all EXCEPT !.hy = h] : h \in HowsTtl}
        \cup {[all EXCEPT !.hs = h] : h \in HowsS(n)}
        \cup {[all EXCEPT !.hac = h] : h \in HowsAC(n)}
        \cup {[all EXCEPT !.hwt = h] : h \in HowsWT(n)}
        \cup {[all EXCEPT !.hpc = h] : h \in HowsPC(n)}
        \cup {[all EXCEPT !.hled = h] : h \in HowsLed}
        \cup {[all EXCEPT !.pwm = o] : o \in PwmOraclesNoFail}

\* the device at power on: one to three axes, the stage at the origin or
\* 3 counts from it on the last axis
InitNew ==
    /\ c = Blank
    /\ \E n \in 1..3, k \in {0, 3} :
        d = [PowerOn(n) EXCEPT !.pos[n] = k]
    /\ pc = "new"
    /\ args = NoArgs
    /\ op = [name |-> "none"]
    /\ sent = <<>>
    /\ result = "none"
    /\ hist = NoHist

Construct ==
    /\ pc = "new"
    /\ \E kw \in KwargsAll :
        /\ Len(kw.axes) = Len(d.pos)
        /\ \E o \in ConstructOracles(Len(kw.axes)) :
            Return(construct(d, kw, o), [name |-> "__init__", kw |-> kw])

NextConstruct ==
    \/ Construct

SpecConstruct == InitNew /\ [][NextConstruct]_vars

\* the construction with arguments kw has completed
Constructed == op.name = "__init__" /\ pc = "returned" /\ result = "ok"

\* the defaults that are verified exactly, the Idle state and the position
DefaultsButSettleTime ==
    /\ c.axes \in {<<"Z">>, <<"X", "Y">>, <<"X", "Y", "Z">>}
    /\ c.axes = op.kw.axes
    /\ \A t \in {c.velocity_mmps, c.acceleration_ms, c.settle_time_ms,
                 c.precision_um, c.position_um} : Len(t) = Len(c.axes)
    /\ \A i \in DOMAIN c.axes :
        /\ c.velocity_mmps[i] = 67 * (c.max_velocity_mmps[i] \div 100)
        /\ c.acceleration_ms[i] = 25 * TU
        /\ c.acceleration_ms[i] = c.min_acceleration_ms[i]
        /\ c.precision_um[i] = 1 * TU
        /\ c.precision_um[i] = c.min_precision_um[i]
    /\ ~c.moving
    /\ c.position_um = ReRead(c, d)

\* C12 as stated: when construction completes, per axis the velocity is
\* 0.67 x max_velocity, the acceleration 25 ms, the settle time 0, the
\* precision 1 um, and the controller is Idle with the position read from
\* the device.
C12_Original ==
    Constructed =>
        /\ DefaultsButSettleTime
        /\ \A i \in DOMAIN c.axes : c.settle_time_ms[i] = 0

\* C12: as above, but the settle time in memory is the one the device
\* reported, which is within 1 ms of 0 on every axis.
C12_Defaults ==
    Constructed =>
        /\ DefaultsButSettleTime
        /\ \A i \in DOMAIN c.axes : Abs(c.settle_time_ms[i]) <= 1 * TU
        /\ c.settle_time_ms = Reported(d, "_get_settle_time")

\* a construction of three axes that completed with a settle time of -1 ms
C12_Witness ==
    /\ Constructed
    /\ c.axes = <<"X", "Y", "Z">>
    /\ c.settle_time_ms = <<0, 0, -1 * TU>>
    /\ c.position_um # <<0, 0, 0>>

----------------------------------------------------------------------------
(* Parameter store claims, continued *)

\* a setter's argument with each unspecified entry taken from memory
Filled(cc, name, arg) ==
    [i \in DOMAIN arg |->
        IF arg[i] = None THEN Num(InMemory(cc, name)[i]) ELSE arg[i]]

\* C13: a setter called with a tuple in which some entry is unspecified
\* (None) does not fail because of it: the entry is resolved to the value in
\* memory before validation, so when the resolved tuple is within the bounds
\* the command is written, and after a successful call the unspecified
\* axis's parameter is unchanged.
C13_Step ==
    (/\ pc = "ready" /\ op'.name \in Setters
     /\ Len(op'.arg) = Len(c.axes)
     /\ ~AllNumbers(op'.arg)
     /\ ~OutOfBounds(c, op'.name, Filled(c, op'.name, op'.arg))) =>
        /\ sent' # <<>>
        /\ result' = "ok" =>
            \A i \in DOMAIN op'.arg :
                op'.arg[i] = None =>
                    InMemory(c', op'.name)[i] = InMemory(c, op'.name)[i]

C13_NoneKeepsCurrent == [][C13_Step]_vars

----------------------------------------------------------------------------
(* Motion claims, continued *)

\* the last known position when lines 312-319 of move_um run: the position
\* in memory, re-read just before when the call found the controller Moving
LastKnown == IF pc = "wait_prior" THEN ReRead(c, d) ELSE c.position_um

\* the target of each axis: an unspecified entry is the last known position,
\* a number is added to it in relative mode
TargetOf(m, relative, from) ==
    [i \in DOMAIN m |->
        IF m[i] = None THEN from[i]
        ELSE IF relative THEN from[i] + m[i][1] ELSE m[i][1]]

\* an M command is written in this step
WritesM == pc \in {"ready", "wait_prior"} /\ "M" \in Range(sent')

\* C14 as stated: every M command carries, per axis in axis order, the count
\* round(t x encoder_counts_per_um) of a target t that is within the range,
\* where t is the last known position for an unspecified entry, the last
\* known position plus the delta for a number in relative mode, and the
\* number in absolute mode.
C14_OriginalStep ==
    WritesM =>
        LET t == TargetOf(op'.arg, op'.relative, LastKnown)
        IN  /\ Len(op'.counts) = Len(c.axes)
            /\ ~OutOfRange(c, t)
            /\ \A i \in DOMAIN t :
                op'.counts[i] =
                    RoundHalfEven(t[i] * c.encoder_counts_per_um[i], PU)

C14_Original == [][C14_OriginalStep]_vars

\* C14: as above, but the count carried is that of the target rounded to
\* 0.001 um: round(round(t, 3) x encoder_counts_per_um).
C14_Step ==
    WritesM =>
        LET t == TargetOf(op'.arg, op'.relative, LastKnown)
        IN  /\ Len(op'.counts) = Len(c.axes)
            /\ ~OutOfRange(c, t)
            /\ \A i \in DOMAIN t :
                op'.counts[i] =
                    RoundHalfEven(NearestNm(t[i])
                                    * c.encoder_counts_per_um[i], PU)

C14_CountsOfTarget == [][C14_Step]_vars

\* an M command for a target of 0.7496 um at 2 counts per um: it carries
\* round(0.750 x 2) = 2 counts, where round(0.7496 x 2) = 1
C14_Witness ==
    /\ op.name = "move_um" /\ "M" \in Range(sent)
    /\ op.target[2] = 7496
    /\ op.counts[2] = 2
    /\ op.was_moving

----------------------------------------------------------------------------
(* Parameter store and illumination claims, continued *)

\* C15: in every state after construction every axis's velocity,
\* acceleration, precision and settle time in memory are within their
\* bounds, whatever the device answers.
C15_WithinBounds ==
    \A i \in DOMAIN c.axes :
        /\ 0 <= c.velocity_mmps[i]
        /\ c.velocity_mmps[i] <= c.max_velocity_mmps[i]
        /\ c.min_acceleration_ms[i] <= c.acceleration_ms[i]
        /\ c.acceleration_ms[i] <= c.max_acceleration_ms[i]
        /\ c.min_precision_um[i] <= c.precision_um[i]
        /\ c.precision_um[i] <= c.max_precision_um[i]
        /\ 0 <= c.settle_time_ms[i]
        /\ c.settle_time_ms[i] <= c.max_settle_time_ms[i]

\* C16: whenever the recorded illumination state is one of the named
\* states, the TTL modes in memory and the device's TTL registers are that
\* state's row of the table.
C16_StateDeterminesRegisters ==
    c.state \in PwmStates =>
        /\ <<c.ttl_in_mode, c.ttl_out_mode>> = TableModes(c.state)
        /\ <<d.ttl_x, d.ttl_y>> = TableCodes(c.state)

\* s is a prefix of t
IsPrefix(s, t) == Len(s) <= Len(t) /\ s = SubSeq(t, 1, Len(s))

\* the commands of a complete set_pwm_state, in order
PwmCommands == <<"TTL X=", "TTL X?", "TTL Y=", "TTL Y?">>

\* C17: a set_pwm_state(name) call writes TTL X=, TTL X?, TTL Y=, TTL Y? in
\* that order (all four when it returns normally, a prefix when it raises,
\* nothing for an unknown name); the output register is written only after
\* the input register was written and verified: when TTL Y= was written the
\* device's input register and the input mode in memory are those of name.
C17_FixedOrder ==
    op.name = "set_pwm_state" =>
        /\ IsPrefix(sent, PwmCommands)
        /\ result = "ok" => sent = PwmCommands
        /\ op.arg \notin PwmStates => sent = <<>>
        /\ "TTL Y=" \in Range(sent) =>
            /\ c.ttl_in_mode = TableModes(op.arg)[1]
            /\ d.ttl_x = TableCodes(op.arg)[1]

\* the verification of the input register failed: nothing was written to
\* the output register
C17_Witness ==
    /\ op.name = "set_pwm_state" /\ op.arg = "external"
    /\ result = "raised"
    /\ sent = <<"TTL X=", "TTL X?">>
    /\ d.ttl_x = "0"
    /\ c.ttl_in_mode = "disabled"

\* a setter's argument after the parameter's rounding
RoundedArg(name, arg) == [i \in DOMAIN arg |-> Num(Rule(name, arg[i][1]))]

\* C18: in every setter the range check is applied before the rounding: a
\* value outside the bounds that rounds into them is rejected, nothing is
\* written, for all four parameters alike.
C18_Step ==
    (/\ pc = "ready" /\ op'.name \in Setters
     /\ Len(op'.arg) = Len(c.axes) /\ AllNumbers(op'.arg)
     /\ OutOfBounds(c, op'.name, op'.arg)
     /\ ~OutOfBounds(c, op'.name, RoundedArg(op'.name, op'.arg))) =>
        /\ result' = "raised"
        /\ sent' = <<>>

C18_CheckBeforeRounding == [][C18_Step]_vars

----------------------------------------------------------------------------
(* The shape of the device's answers.  The getters above read an answer    *)
(* that names the configured axes in order; here the answer is a sequence  *)
(* of tokens, and the device may send any.                                 *)

\* a token 'axis=value' of an answer to S, AC, WT or PC
Token(axis, value) == [axis |-> axis, value |-> value]

\* the answer to a query of the register reg, by its shape: "ok" (the
\* configured axes in order), "swapped" (the same tokens in reverse order),
\* "renamed" (the last axis under another identifier), "short" (the last
\* token missing) or "long" (one token more)
AnswerShapes == {"ok", "swapped", "renamed", "short", "long"}

Answer(axes, reg, shape) ==
    LET n == Len(axes)
        ok == [i \in 1..n |-> Token(axes[i], reg[i])]
    IN  CASE shape = "ok"      -> ok
          [] shape = "swapped" -> [i \in 1..n |-> ok[n + 1 - i]]
          [] shape = "renamed" -> [ok EXCEPT ![n].axis = "T"]
          [] shape = "short"   -> SubSeq(ok, 1, n - 1)
          [] shape = "long"    -> Append(ok, Token("T", 0))

\* _send(cmd, parse_axes=True), lines 90-105: an empty answer is 'No
\* response'; the axes named by the tokens must be the configured axes
send_parse_axes(w, cmd, answer, fail) ==
    LET w1 == send(w, cmd, fail \/ answer = <<>>)
    IN  Then(w1, LAMBDA v :
            IF [i \in DOMAIN answer |-> answer[i].axis] = v.c.axes
            THEN v ELSE Raise(v))

\* the register, the attribute and the conversion of each query
QueryRegister(cmd) ==
    CASE cmd = "S?" -> "s" [] cmd = "AC?" -> "ac"
      [] cmd = "WT?" -> "wt" [] cmd = "PC?" -> "pc"

QueryAttribute(cmd) ==
    CASE cmd = "S?" -> "velocity_mmps" [] cmd = "AC?" -> "acceleration_ms"
      [] cmd = "WT?" -> "settle_time_ms" [] cmd = "PC?" -> "precision_um"

QueryGetter(cmd) ==
    CASE cmd = "S?" -> "_get_velocity" [] cmd = "AC?" -> "_get_acceleration"
      [] cmd = "WT?" -> "_get_settle_time" [] cmd = "PC?" -> "_get_precision"

ParseValue(cmd, t) ==
    CASE cmd = "S?" -> parse_velocity(t) [] cmd = "AC?" -> parse_ms(t)
      [] cmd = "WT?" -> parse_ms(t) [] cmd = "PC?" -> parse_precision(t)

\* _get_velocity, _get_acceleration, _get_settle_time, _get_precision: the
\* attribute is assigned what _send returns
get_answered(w, cmd, answer, fail) ==
    LET w1 == send_parse_axes(w, cmd, answer, fail)
    IN  Then(w1, LAMBDA v : [v EXCEPT !.c[QueryAttribute(cmd)] =
            [i \in DOMAIN answer |-> ParseValue(cmd, answer[i].value)]])

\* the answer to 'W X Y': bare counts, one per axis asked for ("ok"), one
\* fewer ("short"), one more ("long"), or tokens 'axis=count' ("keyed")
PositionShapes == {"ok", "short", "long", "keyed"}

PositionAnswer(pos, shape) ==
    CASE shape = "short" -> SubSeq(pos, 1, Len(pos) - 1)
      [] shape = "long"  -> Append(pos, 0)
      [] OTHER -> pos

\* _get_position, lines 289-290: no parse_axes; the tokens go to float() in
\* _counts2position, whose zip stops at the shorter of the answer and the
\* encoder factors
get_position_answered(w, pos, shape, fail) ==
    LET answer == PositionAnswer(pos, shape)
        w1 == send(w, "W", fail \/ answer = <<>>)
    IN  Then(w1, LAMBDA v :
            IF shape = "keyed" THEN Raise(v)
            ELSE [v EXCEPT !.c.position_um = counts2position(v, answer)])

AxisQueries == {"S?", "AC?", "WT?", "PC?"}

\* a getter is called and the device answers in some shape
QueryAxes ==
    /\ Ready
    /\ \E cmd \in AxisQueries : \E shape \in AnswerShapes : \E qf \in BOOLEAN :
        Return(get_answered(Start, cmd,
                            Answer(c.axes, d[QueryRegister(cmd)], shape), qf),
               [name |-> QueryGetter(cmd), attribute |-> QueryAttribute(cmd),
                shape |-> shape, fail |-> <<FALSE, qf>>])

QueryPosition ==
    /\ Ready
    /\ \E shape \in PositionShapes : \E qf \in BOOLEAN :
        Return(get_position_answered(Start, d.pos, shape, qf),
               [name |-> "_get_position", attribute |-> "position_um",
                shape |-> shape, fail |-> <<FALSE, qf>>])

NextAnswer ==
    \/ QueryAxes
    \/ QueryPosition
    \/ Forget

SpecAnswer == InitExact /\ [][NextAnswer]_vars

\* the per-axis tuples the queries assign
PerAxisTuples ==
    {"velocity_mmps", "acceleration_ms", "settle_time_ms", "precision_um",
     "position_um"}

\* C19: a query (S, AC, WT, PC, W) answered with axes that differ from the
\* configured axes in order, membership or count raises and leaves the
\* in-memory tuple as it was, so that every per-axis tuple keeps the length
\* of the axis sequence.
C19_Step ==
    /\ (pc = "ready" /\ pc' = "returned" /\ op'.shape # "ok") =>
            /\ result' = "raised"
            /\ c'[op'.attribute] = c[op'.attribute]
    /\ \A f \in PerAxisTuples : Len(c'[f]) = Len(c'.axes)

C19_MismatchIsError == [][C19_Step]_vars

----------------------------------------------------------------------------
(* The completion wait *)

\* the blocking call explored: move_um((1.0, None), relative=False)
BlockingCalls == {MoveCall(<<Num(10000), None>>, FALSE, TRUE)}

BlockingMove ==
    /\ Ready
    /\ \E a \in BlockingCalls :
        LET o == [name |-> "move_um", arg |-> a.move_um,
                  relative |-> a.relative, block |-> a.block,
                  was_moving |-> c.moving, target |-> <<>>,
                  counts |-> <<>>]
        IN  IF c.moving THEN Suspend(Start, o, "wait_prior", a)
            ELSE \E mo \in MoveOracles(Len(c.axes)) :
                    Body(Start, a, o, mo.how, mo.wfail)

NextWait ==
    \/ BlockingMove
    \/ FinishMoving
    \/ PollBusy
    \/ PollFail
    \/ PollDone
    \/ Forget

\* the device is fair to a waiting call: it cannot answer every status
\* query of the wait with a busy code.  Both actions are enabled in exactly
\* the waiting states, so every behaviour in which the device in the end
\* answers 'N' (fair to PollDone alone) is a behaviour of SpecWait.
SpecWait == InitExact /\ [][NextWait]_vars /\ WF_vars(PollFail \/ PollDone)

\* C20: a call that waits for completion ends only by a status query
\* answered 'N' or by a failed exchange, and with a device that in the end
\* answers 'N' it does end: every waiting _finish_moving and move_um call
\* returns or raises.  A busy answer leaves the call waiting and is possible
\* in every waiting state, any number of times: the loop has no bound.
C20_LeavesOnlyAnswered ==
    /\ (pc \in Waits /\ pc' \notin Waits) => (PollDone \/ PollFail)
    /\ PollBusy => (pc' = pc /\ c' = c /\ result' = "running")

C20_WaitTerminates ==
    /\ (pc \in Waits) ~> (pc = "returned")
    /\ [][C20_LeavesOnlyAnswered]_vars
    /\ [](pc \in Waits => ENABLED PollBusy)

\* a _finish_moving call that had to wait has returned normally
C20_Witness ==
    /\ pc = "returned" /\ result = "ok"
    /\ op.name = "_finish_moving" /\ op.was_moving
    /\ sent = <<"/", "W">>

----------------------------------------------------------------------------
(* Motion claims: a failed completion check *)

\* this step ends a completion wait by the tolerance check: the position
\* was re-read and some axis is outside the precision of the target
ToleranceFailure ==
    /\ pc \in Waits /\ pc' = "returned" /\ result' = "raised"
    /\ "W" \in Range(sent')
    /\ c'.position_um = ReRead(c, d)
    /\ ~WithinTolerance(c, ReRead(c, d))

\* C21: a completion wait that raises at the tolerance check leaves the
\* moving flag set and the recorded target as it was, and updates
\* position_um only.  A move_um call made while the flag is set starts with
\* the completion wait and writes nothing before it, and an M command is
\* written from the Moving state only in a step whose re-read position is
\* within the precision of the old target on every axis.
C21_Step ==
    /\ ToleranceFailure =>
            /\ c'.moving
            /\ c'.target_move_um = c.target_move_um
            /\ c' = [c EXCEPT !.position_um = ReRead(c, d)]
            /\ ("M" \in Range(sent')) = ("M" \in Range(sent))
    /\ (pc = "ready" /\ c.moving /\ op'.name = "move_um") =>
            /\ pc' = "wait_prior"
            /\ sent' = <<>>
            /\ c' = c
    /\ (c.moving /\ WritesM) =>
            /\ pc = "wait_prior"
            /\ WithinTolerance(c, ReRead(c, d))

C21_FailedCheckKeepsMoving == [][C21_Step]_vars

\* a move_um call made in the Moving state has re-run the check against the
\* old target and raised: the flag is still set and no M command went out
C21_Witness ==
    /\ pc = "returned" /\ result = "raised"
    /\ op.name = "move_um" /\ op.was_moving
    /\ sent = <<"/", "W">>
    /\ c.moving
    /\ Len(c.position_um) = Len(c.target_move_um)
    /\ ~WithinTolerance(c, c.position_um)

----------------------------------------------------------------------------
(* Motion and illumination together *)

\* the non-blocking call explored: move_um((1.0, None), relative=False,
\* block=False)
NonBlockingCalls == {MoveCall(<<Num(10000), None>>, FALSE, FALSE)}

NonBlockingMove ==
    /\ Ready
    /\ \E a \in NonBlockingCalls :
        LET o == [name |-> "move_um", arg |-> a.move_um,
                  relative |-> a.relative, block |-> a.block,
                  was_moving |-> c.moving, target |-> <<>>,
                  counts |-> <<>>]
        IN  IF c.moving THEN Suspend(Start, o, "wait_prior", a)
            ELSE \E mo \in MoveOracles(Len(c.axes)) :
                    Body(Start, a, o, mo.how, mo.wfail)

\* the illumination calls explored next to the moves: set_pwm_state('pwm')
\* and set_pwm_state('off') on a device that stores what is written, with
\* and without a failed exchange, and set_pwm_intensity(50)
JointStates == {"pwm", "off"}

JointOracles == {o \in PwmOracles : o.hx = Apply /\ o.hy = Apply /\ ~o.wx /\ ~o.wy}

JointSetPwmState ==
    /\ Ready
    /\ \E state \in JointStates, o \in JointOracles :
        Return(set_pwm_state(Start, state, o),
               [name |-> "set_pwm_state", arg |-> state])

JointSetPwmIntensity ==
    /\ Ready
    /\ \E qf \in BOOLEAN :
        Return(set_pwm_intensity(Start, Num(500), Apply, FALSE, qf),
               [name |-> "set_pwm_intensity", arg |-> Num(500)])

NextJoint ==
    \/ JointSetPwmState
    \/ JointSetPwmIntensity
    \/ GetPwmIntensity
    \/ Close
    \/ BlockingMove
    \/ NonBlockingMove
    \/ FinishMoving
    \/ PollBusy
    \/ PollFail
    \/ PollDone
    \/ Forget

SpecJoint == InitExact /\ [][NextJoint]_vars

\* the commands of each side, as they are logged in sent
MotionCommands == {"M", "/", "W", "S=", "S?", "AC=", "AC?", "WT=", "WT?",
                   "PC=", "PC?"}
IlluminationCommands == {"TTL X=", "TTL X?", "TTL Y=", "TTL Y?",
                         "LED X=", "LED X?"}

IlluminationCalls ==
    {"set_pwm_state", "set_pwm_intensity", "get_pwm_intensity", "close"}
MotionCalls == {"move_um", "_finish_moving"}

\* the attributes of each side
MotionAttributes ==
    {"moving", "target_move_um", "position_um", "velocity_mmps",
     "acceleration_ms", "settle_time_ms", "precision_um"}
IlluminationAttributes ==
    {"state", "ttl_in_mode", "ttl_out_mode", "pwm_intensity"}

\* C22: set_pwm_state, set_pwm_intensity, get_pwm_intensity and close write
\* no motion or parameter command and leave the moving flag, the target,
\* position_um and the four parameter tuples as they were; every step of
\* move_um and _finish_moving writes no TTL or LED command and leaves the
\* illumination state, both TTL modes and pwm_intensity as they were.
C22_Step ==
    /\ (pc = "ready" /\ op'.name \in IlluminationCalls) =>
            /\ Range(sent') \cap MotionCommands = {}
            /\ \A f \in MotionAttributes : c'[f] = c[f]
    /\ ((pc = "ready" /\ op'.name \in MotionCalls) \/ pc \in Waits) =>
            /\ Range(sent') \cap IlluminationCommands = {}
            /\ \A f \in IlluminationAttributes : c'[f] = c[f]

C22_Independent == [][C22_Step]_vars

\* close() after a non-blocking move: the port is closed, the illumination
\* was switched off, and the flag is still set
C22_Witness ==
    /\ pc = "returned" /\ result = "ok"
    /\ op.name = "close" /\ op.was = "pwm"
    /\ ~c.port_open /\ c.state = "off"
    /\ c.moving
    /\ sent = PwmCommands

====
